---- MODULE Spec2Model ----
(***************************************************************************)
(* Model of the JzAzBz gradient code of lipgloss: package jzazbz           *)
(* (jzazbz/jzazbz.go: FromHex, NewGradient, Gradient.Color,                *)
(* Gradient.ColorAt, Color.RGBA, blend, lerp) and the lazily initialised   *)
(* GradientColor wrapper of package lipgloss (init / RGBA / color /        *)
(* dColor).                                                                *)
(*                                                                         *)
(* float64 values are modelled as extended rationals <<n, d>>: d > 0 is a  *)
(* finite value n/d in lowest terms, <<1,0>> and <<-1,0>> are +Inf and     *)
(* -Inf, <<0,0>> is NaN.  Rounding of float64 arithmetic is not modelled.  *)
(* A Go string is a sequence of one-character strings.  A Go run-time      *)
(* panic (index out of range) is the value Panic.                          *)
(***************************************************************************)
EXTENDS Integers, Sequences, FiniteSets, TLC

----------------------------------------------------------------------------
(* Bounds of the model *)

MaxStops == 3       \* longest stop list / offset list passed to NewGradient
MaxPos == 4         \* positions and maxima range over -1 .. MaxPos (+1 for pos)
MaxCalls == 2       \* calls made in all on the shared GradientColor

----------------------------------------------------------------------------
(* float64 as extended rationals *)

Abs(x) == IF x < 0 THEN 0 - x ELSE x

Sign(x) == IF x < 0 THEN 0 - 1 ELSE IF x > 0 THEN 1 ELSE 0

RECURSIVE GCD(_, _)
GCD(x, y) == IF y = 0 THEN x ELSE GCD(y, x % y)

Norm(n, d) ==
    IF d = 0 THEN <<Sign(n), 0>>
    ELSE LET k == GCD(Abs(n), Abs(d))
         IN  <<(Sign(d) * n) \div k, Abs(d) \div k>>

NaN == <<0, 0>>
Zero == <<0, 1>>
One == <<1, 1>>
R(n, d) == Norm(n, d)
FromInt(i) == <<i, 1>>

isNaN(x) == x = NaN

\* IEEE comparisons: every comparison with NaN is false
RLt(x, y) ==
    /\ ~isNaN(x) /\ ~isNaN(y)
    /\ IF x[2] = 0 /\ y[2] = 0 THEN x[1] < y[1]
       ELSE x[1] * y[2] < y[1] * x[2]

REq(x, y) == ~isNaN(x) /\ ~isNaN(y) /\ x = y

RLe(x, y) == RLt(x, y) \/ REq(x, y)

RAdd(x, y) ==
    IF x[2] = 0 /\ y[2] = 0 THEN (IF x = y THEN x ELSE NaN)
    ELSE IF x[2] = 0 THEN x
    ELSE IF y[2] = 0 THEN y
    ELSE LET k == GCD(x[2], y[2])
         IN  Norm(x[1] * (y[2] \div k) + y[1] * (x[2] \div k),
                  (x[2] \div k) * y[2])

RNeg(x) == <<0 - x[1], x[2]>>

RSub(x, y) == RAdd(x, RNeg(y))

RMul(x, y) ==
    LET a == Norm(x[1], y[2])
        b == Norm(y[1], x[2])
    IN  IF x[2] = 0 \/ y[2] = 0 THEN Norm(x[1] * y[1], 0)
        ELSE Norm(a[1] * b[1], a[2] * b[2])

RDiv(x, y) ==
    IF isNaN(x) \/ isNaN(y) THEN NaN
    ELSE IF y[2] = 0 THEN (IF x[2] = 0 THEN NaN ELSE Zero)
    ELSE IF y[1] = 0 THEN Norm(x[1], 0)
    ELSE RMul(x, Norm(y[2] * Sign(y[1]), Abs(y[1])))

----------------------------------------------------------------------------
(* Values *)

Panic == [panic |-> "index out of range"]

IsPanic(v) == "panic" \in DOMAIN v

\* type Color struct { j, a, b float64 }
MkColor(j, a, b) == [j |-> j, a |-> a, b |-> b]

\* func black() *Color
black == MkColor(Zero, Zero, Zero)

----------------------------------------------------------------------------
(* Hex parsing: FromHex and hexByte *)

\* Sample inputs of FromHex; "z" and "g" are not hex digits
HexSamples ==
    { <<>>,                                          \* ""
      <<"#">>,                                       \* "#"
      <<"#", "f", "f", "f">>,                        \* "#fff"
      <<"#", "f", "f", "0", "0", "0", "0", "0">>,    \* "#ff00000"
      <<"#", "0", "0", "0", "0", "0", "0">>,         \* "#000000"
      <<"#", "f", "f", "0", "0", "0", "0">>,         \* "#ff0000"
      <<"#", "0", "0", "f", "f", "0", "0">>,         \* "#00ff00"
      <<"#", "0", "0", "0", "0", "f", "f">>,         \* "#0000ff"
      <<"#", "F", "F", "F", "F", "F", "F">>,         \* "#FFFFFF"
      <<"f", "f", "0", "0", "f", "f">>,              \* "ff00ff"
      <<"#", "z", "z", "0", "0", "f", "f">>,         \* "#zz00ff"
      <<"#", "f", "f", "f", "f", "g", "g">>,         \* "#ffffgg"
      <<"#", "0", "0", "0", "0", "0", "z">> }        \* "#00000z"

\* The stop strings handed to NewGradient
StopSamples ==
    { <<>>,
      <<"#", "f", "f", "0", "0", "0", "0">>,
      <<"#", "0", "0", "0", "0", "f", "f">> }

Digits == {"0", "1", "2", "3", "4", "5", "6", "7", "8", "9"}
LowerHex == {"a", "b", "c", "d", "e", "f"}
UpperHex == {"A", "B", "C", "D", "E", "F"}

DigitVal ==
    [c \in Digits \cup LowerHex \cup UpperHex |->
       CASE c = "0" -> 0 [] c = "1" -> 1 [] c = "2" -> 2 [] c = "3" -> 3
         [] c = "4" -> 4 [] c = "5" -> 5 [] c = "6" -> 6 [] c = "7" -> 7
         [] c = "8" -> 8 [] c = "9" -> 9
         [] c \in {"a", "A"} -> 10 [] c \in {"b", "B"} -> 11
         [] c \in {"c", "C"} -> 12 [] c \in {"d", "D"} -> 13
         [] c \in {"e", "E"} -> 14 [] c \in {"f", "F"} -> 15]

\* func hexByte(b byte) byte: anything that is not a hex digit is 0
hexByte(b) ==
    IF b \in Digits THEN DigitVal[b]
    ELSE IF b \in LowerHex THEN DigitVal[b]
    ELSE IF b \in UpperHex THEN DigitVal[b]
    ELSE 0

\* hexByte(hi)<<4 + hexByte(lo), in byte arithmetic
hexPair(hi, lo) == (((hexByte(hi) * 16) % 256) + hexByte(lo)) % 256

\* The pipeline sRGB -> lRGB -> XYZ -> L'M'S' -> JzAzBz of FromHex, evaluated
\* in float64 at the channel values the sample strings produce and rounded to
\* five decimals.
JabTable ==
    [rgb \in {0, 255} \X {0, 255} \X {0, 255} |->
       CASE rgb = <<0, 0, 0>>       -> <<0, 0, 0>>
         [] rgb = <<0, 0, 255>>     -> <<478, 0 - 116, 0 - 2495>>
         [] rgb = <<0, 255, 0>>     -> <<1243, 0 - 1625, 1657>>
         [] rgb = <<0, 255, 255>>   -> <<1419, 0 - 1169, 0 - 544>>
         [] rgb = <<255, 0, 0>>     -> <<817, 1616, 1141>>
         [] rgb = <<255, 0, 255>>   -> <<1049, 1640, 0 - 1404>>
         [] rgb = <<255, 255, 0>>   -> <<1611, 0 - 372, 2080>>
         [] rgb = <<255, 255, 255>> -> <<1758, 0 - 3, 0 - 2>>]

toJzAzBz(r, g, b) ==
    LET t == JabTable[<<r, g, b>>]
    IN  MkColor(R(t[1], 100000), R(t[2], 100000), R(t[3], 100000))

\* hexStr[1:]
Tail1(s) == SubSeq(s, 2, Len(s))

\* func FromHex(hexStr string) *Color
FromHex(hexStr) ==
    IF Len(hexStr) = 0 THEN Panic                  \* hexStr[0] on ""
    ELSE LET h == IF hexStr[1] = "#" THEN Tail1(hexStr) ELSE hexStr
         IN  IF Len(h) # 6 THEN black
             ELSE toJzAzBz(hexPair(h[1], h[2]),
                           hexPair(h[3], h[4]),
                           hexPair(h[5], h[6]))

----------------------------------------------------------------------------
(* Color: blend, lerp, sRGB, RGBA *)

\* Variant of lerp with the two weights exchanged
lerpSwapped(a, b, f) ==
    IF REq(a, b) THEN a
    ELSE RAdd(RMul(a, f), RMul(b, RSub(One, f)))

\* func lerp(a, b, f float64) float64
lerp(a, b, f) ==
    IF REq(a, b) THEN a
    ELSE RAdd(RMul(a, RSub(One, f)), RMul(b, f))

\* func (c *Color) blend(c2 *Color, frac float64) *Color
blend(c, c2, frac) ==
    MkColor(lerp(c.j, c2.j, frac), lerp(c.a, c2.a, frac), lerp(c.b, c2.b, frac))

\* func (c *Color) sRGB() (r, g, b float64): the inverse pipeline followed by
\* math.Round(255 * ...).  At the tabulated colours its float64 evaluation
\* returns the channel values the colour was built from.
sRGB(c) ==
    CHOOSE rgb \in DOMAIN JabTable : toJzAzBz(rgb[1], rgb[2], rgb[3]) = c

\* func (c *Color) RGBA() (r, g, b, a uint32)
RGBA(c) ==
    LET s == sRGB(c)
    IN  <<s[1] * 65535, s[2] * 65535, s[3] * 65535, 65535>>

----------------------------------------------------------------------------
(* Gradient: NewGradient, Color, ColorAt *)

\* type stop struct { Color *Color; Offset float64 }
MkStop(c, o) == [Color |-> c, Offset |-> o]

\* var BadGradient = &Gradient{}
BadGradient == [stops |-> <<>>]

\* g.stops[i] with Go's zero-based index and bounds check
stopAt(g, i) ==
    IF 0 <= i /\ i < Len(g.stops) THEN g.stops[i + 1] ELSE Panic

\* g.stops[i].Color
stopColor(g, i) ==
    LET st == stopAt(g, i) IN IF IsPanic(st) THEN Panic ELSE st.Color

\* g.stops[i].Offset
stopOffset(g, i) == g.stops[i + 1].Offset

\* sort.Float64Slice.Less(i, j), zero-based
Less(x, i, j) ==
    RLt(x[i + 1], x[j + 1]) \/ (isNaN(x[i + 1]) /\ ~isNaN(x[j + 1]))

\* sort.IsSorted(sort.Float64Slice(offsets))
IsSorted(x) == \A i \in 1 .. Len(x) - 1 : ~Less(x, i, i - 1)

\* Variant of synthOffsets spreading the interior stops by i/(n-1)
synthOffsetsEven(n) ==
    [i \in 1 .. n |->
       IF i - 1 >= 1 /\ i - 1 < n - 1
         THEN RMul(RDiv(One, FromInt(n - 1)), FromInt(i - 1))
       ELSE IF i - 1 = n - 1 THEN One
       ELSE Zero]

\* offsets = make([]float64, n); offsets[n-1] = 1.0;
\* for i := 1; i < n-1; i++ { offsets[i] = 1.0 / float64(n) * float64(i) }
synthOffsets(n) ==
    [i \in 1 .. n |->
       IF i - 1 >= 1 /\ i - 1 < n - 1
         THEN RMul(RDiv(One, FromInt(n)), FromInt(i - 1))
       ELSE IF i - 1 = n - 1 THEN One
       ELSE Zero]

\* func NewGradient(stops []string, offsets []float64) *Gradient
NewGradient(stops, offsets) ==
    IF Len(stops) = 0 THEN BadGradient
    ELSE IF Len(offsets) > 0
              /\ (Len(offsets) # Len(stops) \/ ~IsSorted(offsets))
      THEN BadGradient
    ELSE LET offs == IF Len(offsets) > 0 THEN offsets
                     ELSE synthOffsets(Len(stops))
             cols == [i \in 1 .. Len(stops) |-> FromHex(stops[i])]
         IN  IF \E i \in 1 .. Len(stops) : IsPanic(cols[i]) THEN Panic
             ELSE [stops |-> [i \in 1 .. Len(stops) |->
                                MkStop(cols[i], offs[i])]]

\* func (g *Gradient) Color(idx int) *Color
Color(g, idx) ==
    IF Len(g.stops) > idx THEN stopColor(g, idx) ELSE black

\* Variant of ColorAtBranch without the switch on pos
ColorAtBranchNoPosSwitch(g, pos, max) ==
    IF Len(g.stops) = 0 THEN "nostops"
    ELSE IF Len(g.stops) = 1 THEN "onestop"
    ELSE "scan"

\* Variant of ColorAtBranch without the switch on len(g.stops)
ColorAtBranchNoLenSwitch(g, pos, max) ==
    IF pos = 0 THEN "pos0"
    ELSE IF pos = max THEN "posmax"
    ELSE "scan"

\* The two switch statements at the head of ColorAt
ColorAtBranch(g, pos, max) ==
    IF Len(g.stops) = 0 THEN "nostops"
    ELSE IF Len(g.stops) = 1 THEN "onestop"
    ELSE IF pos = 0 THEN "pos0"
    ELSE IF pos = max THEN "posmax"
    ELSE "scan"

\* for s = 0; s < len(g.stops); s++ { if f < g.stops[s].Offset { break } }
RECURSIVE scanStops(_, _, _)
scanStops(g, f, s) ==
    IF s < Len(g.stops) /\ ~RLt(f, stopOffset(g, s))
      THEN scanStops(g, f, s + 1)
    ELSE s

\* The part of ColorAt after the two switch statements, with its locals
ColorAtScan(g, pos, max) ==
    LET f == RDiv(FromInt(pos), FromInt(max))
        s == scanStops(g, f, 0)
        n == Len(g.stops)
    IN  IF s = 0
          THEN [ret |-> stopColor(g, 0), s |-> s, f |-> f, blended |-> FALSE]
        ELSE IF s = n
          THEN [ret |-> stopColor(g, n - 1), s |-> s, f |-> f,
                blended |-> FALSE]
        ELSE LET div == RSub(stopOffset(g, s), stopOffset(g, s - 1))
                 frac == RDiv(RSub(f, stopOffset(g, s - 1)), div)
             IN  [ret |-> blend(stopColor(g, s - 1), stopColor(g, s), frac),
                  s |-> s, f |-> f, blended |-> TRUE,
                  div |-> div, frac |-> frac]

\* func (g *Gradient) ColorAt(pos, max int) *Color, with the path it took
ColorAtTrace(g, pos, max) ==
    LET br == ColorAtBranch(g, pos, max)
    IN  CASE br = "nostops" -> [ret |-> black, branch |-> br]
          [] br = "onestop" -> [ret |-> stopColor(g, 0), branch |-> br]
          [] br = "pos0"    -> [ret |-> stopColor(g, 0), branch |-> br]
          [] br = "posmax"  ->
               [ret |-> stopColor(g, Len(g.stops) - 1), branch |-> br]
          [] br = "scan"    ->
               [ret |-> ColorAtScan(g, pos, max).ret, branch |-> br,
                scan |-> ColorAtScan(g, pos, max)]

ColorAt(g, pos, max) == ColorAtTrace(g, pos, max).ret

----------------------------------------------------------------------------
(* State *)

VARIABLES
    g,          \* the *Gradient under test (sequential specification)
    call,       \* the last call made and its arguments
    ret,        \* what that call returned, or Panic
    trace,      \* path and locals of the last ColorAt call; operands after blend
    gc,         \* the shared GradientColor: fields g, Stops, Offsets
    pc,         \* per goroutine: position inside init / the calling method
    op,         \* per goroutine: the method being executed
    tmp,        \* per goroutine: result of NewGradient not yet stored
    out,        \* per goroutine: gradient used, method and value computed
    calls,      \* number of calls started on the GradientColor
    nBuilds,    \* number of NewGradient runs made by init
    nWrites,    \* number of assignments to gc.g
    nextAddr    \* next fresh heap address

seqVars == <<g, call, ret, trace>>
lazyVars == <<gc, pc, op, tmp, out, calls, nBuilds, nWrites, nextAddr>>
vars == <<g, call, ret, trace, gc, pc, op, tmp, out, calls, nBuilds, nWrites,
          nextAddr>>

NoValue == [none |-> TRUE]
Nil == [nil |-> TRUE]

NumProcs == 2
Procs == 1 .. NumProcs

\* Inputs of the sequential specification
StopLists == UNION {[1 .. n -> StopSamples] : n \in 0 .. MaxStops}
OffsetVals == {NaN, R(0 - 1, 2), Zero, R(1, 2), One, R(3, 2)}
OffsetLists == UNION {[1 .. n -> OffsetVals] : n \in 0 .. MaxStops}
IdxVals == (0 - 1) .. (MaxStops + 1)
PosVals == ((0 - 1) .. (MaxPos + 1)) \cup {5}
MaxVals == ((0 - 1) .. MaxPos) \cup {10}

\* Inputs of the concurrent specification: (Stops, Offsets) of the GradientColor
Red == <<"#", "f", "f", "0", "0", "0", "0">>
Blue == <<"#", "0", "0", "0", "0", "f", "f">>
LazyConfigs ==
    { <<<<Red, Blue>>, <<>>>>,
      <<<<Red, Blue, Red>>, <<Zero, R(1, 2), One>>>>,
      <<<<Red, Blue>>, <<One, Zero>>>>,
      <<<<>>, <<>>>>,
      <<<<Red, <<>>>>, <<>>>>,
      <<<<Red, <<"#", "f", "f", "f">>>>, <<>>>>,
      <<<<Red, Blue>>, <<R(0 - 1, 2), R(3, 2)>>>>,
      <<<<Red, Blue>>, <<R(1, 2), R(1, 2)>>>> }
LazyOps ==
    {[name |-> "RGBA"], [name |-> "color"]}
      \cup {[name |-> "dColor", x |-> x, xMax |-> 2] : x \in 0 .. 2}

LazyIdle ==
    /\ pc = [t \in Procs |-> "idle"]
    /\ op = [t \in Procs |-> NoValue]
    /\ tmp = [t \in Procs |-> Nil]
    /\ out = [t \in Procs |-> NoValue]
    /\ calls = 0
    /\ nBuilds = 0
    /\ nWrites = 0
    /\ nextAddr = 1

SeqIdle ==
    /\ g = BadGradient
    /\ call = [op |-> "idle"]
    /\ ret = NoValue
    /\ trace = NoValue

----------------------------------------------------------------------------
(* Sequential specification: one caller building and querying gradients *)

Init ==
    /\ SeqIdle
    /\ gc = [g |-> Nil, Stops |-> <<>>, Offsets |-> <<>>]
    /\ LazyIdle

\* g = NewGradient(stops, offsets), by a caller that holds no gradient yet
CallNewGradient(stops, offsets) ==
    /\ call.op = "idle"
    /\ g = BadGradient
    /\ LET r == NewGradient(stops, offsets)
       IN  /\ ret' = r
           /\ g' = IF IsPanic(r) THEN g ELSE r
    /\ call' = [op |-> "NewGradient", stops |-> stops, offsets |-> offsets]
    /\ trace' = NoValue
    /\ UNCHANGED lazyVars

\* g.Color(idx)
CallColor(idx) ==
    /\ call.op = "idle"
    /\ ret' = Color(g, idx)
    /\ call' = [op |-> "Color", idx |-> idx]
    /\ trace' = NoValue
    /\ UNCHANGED <<g, gc, pc, op, tmp, out, calls, nBuilds, nWrites, nextAddr>>

\* g.ColorAt(pos, max)
CallColorAt(pos, max) ==
    /\ call.op = "idle"
    /\ ret' = ColorAt(g, pos, max)
    /\ trace' = ColorAtTrace(g, pos, max)
    /\ call' = [op |-> "ColorAt", pos |-> pos, max |-> max]
    /\ UNCHANGED <<g, gc, pc, op, tmp, out, calls, nBuilds, nWrites, nextAddr>>

\* FromHex(hexStr)
CallFromHex(hexStr) ==
    /\ call.op = "idle"
    /\ ret' = FromHex(hexStr)
    /\ call' = [op |-> "FromHex", hexStr |-> hexStr]
    /\ trace' = NoValue
    /\ UNCHANGED <<g, gc, pc, op, tmp, out, calls, nBuilds, nWrites, nextAddr>>

\* g.Color(idx).RGBA(), as GradientColor.RGBA does with idx = 0
CallRGBA(idx) ==
    /\ call.op = "idle"
    /\ idx >= 0
    /\ ret' = RGBA(Color(g, idx))
    /\ call' = [op |-> "RGBA", c |-> Color(g, idx)]
    /\ trace' = NoValue
    /\ UNCHANGED <<g, gc, pc, op, tmp, out, calls, nBuilds, nWrites, nextAddr>>

\* The caller takes the result and is ready for its next call
Return ==
    /\ call.op # "idle"
    /\ call' = [op |-> "idle"]
    /\ ret' = NoValue
    /\ trace' = NoValue
    /\ UNCHANGED <<g, gc, pc, op, tmp, out, calls, nBuilds, nWrites, nextAddr>>

\* The calls an idle caller can make
NewGradientStep ==
    /\ call.op = "idle"
    /\ g = BadGradient
    /\ \E stops \in StopLists, offsets \in OffsetLists :
         CallNewGradient(stops, offsets)

ColorStep ==
    /\ call.op = "idle"
    /\ \E idx \in IdxVals : CallColor(idx)

ColorAtStep ==
    /\ call.op = "idle"
    /\ \E pos \in PosVals, max \in MaxVals : CallColorAt(pos, max)

FromHexStep ==
    /\ call.op = "idle"
    /\ \E hexStr \in HexSamples : CallFromHex(hexStr)

RGBAStep ==
    /\ call.op = "idle"
    /\ \E idx \in IdxVals : CallRGBA(idx)

Next ==
    \/ NewGradientStep
    \/ ColorStep
    \/ ColorAtStep
    \/ FromHexStep
    \/ RGBAStep
    \/ Return

Spec == Init /\ [][Next]_vars

----------------------------------------------------------------------------
(* Concurrent specification: goroutines sharing one GradientColor *)

\* A *Gradient: heap address and the value stored there.  BadGradient is the
\* one package-level sentinel, every other gradient is freshly allocated.
Ptr(addr, val) == [addr |-> addr, val |-> val]
BadGradientPtr == Ptr(0, BadGradient)

InitLazy ==
    /\ SeqIdle
    /\ \E cfg \in LazyConfigs :
         gc = [g |-> Nil, Stops |-> cfg[1], Offsets |-> cfg[2]]
    /\ LazyIdle

Crashed == \E t \in Procs : pc[t] = "panicked"

\* Goroutine t calls gc.RGBA(), gc.color(r) or gc.dColor(r, x, y, xMax, yMax)
Call(t, o) ==
    /\ ~Crashed
    /\ pc[t] = "idle"
    /\ calls < MaxCalls
    /\ pc' = [pc EXCEPT ![t] = "check"]
    /\ op' = [op EXCEPT ![t] = o]
    /\ calls' = calls + 1
    /\ UNCHANGED <<g, call, ret, trace, gc, tmp, out, nBuilds, nWrites,
                   nextAddr>>

\* init: if gc.g != nil { return }
InitCheck(t) ==
    /\ ~Crashed
    /\ pc[t] = "check"
    /\ pc' = [pc EXCEPT ![t] = IF gc.g # Nil THEN "use" ELSE "build"]
    /\ UNCHANGED <<g, call, ret, trace, gc, op, tmp, out, calls, nBuilds,
                   nWrites, nextAddr>>

\* init: evaluation of jzazbz.NewGradient(gc.Stops, gc.Offsets)
InitBuild(t) ==
    /\ ~Crashed
    /\ pc[t] = "build"
    /\ nBuilds' = nBuilds + 1
    /\ LET r == NewGradient(gc.Stops, gc.Offsets)
       IN  IF IsPanic(r)
             THEN /\ pc' = [pc EXCEPT ![t] = "panicked"]
                  /\ out' = [out EXCEPT ![t] = Panic]
                  /\ UNCHANGED <<tmp, nextAddr>>
           ELSE IF Len(r.stops) = 0
             THEN /\ pc' = [pc EXCEPT ![t] = "store"]
                  /\ tmp' = [tmp EXCEPT ![t] = BadGradientPtr]
                  /\ UNCHANGED <<out, nextAddr>>
           ELSE /\ pc' = [pc EXCEPT ![t] = "store"]
                /\ tmp' = [tmp EXCEPT ![t] = Ptr(nextAddr, r)]
                /\ nextAddr' = nextAddr + 1
                /\ UNCHANGED out
    /\ UNCHANGED <<g, call, ret, trace, gc, op, calls, nWrites>>

\* init: the assignment gc.g = <result of NewGradient>
InitStore(t) ==
    /\ ~Crashed
    /\ pc[t] = "store"
    /\ gc' = [gc EXCEPT !.g = tmp[t]]
    /\ nWrites' = nWrites + 1
    /\ tmp' = [tmp EXCEPT ![t] = Nil]
    /\ pc' = [pc EXCEPT ![t] = "use"]
    /\ UNCHANGED <<g, call, ret, trace, op, out, calls, nBuilds, nextAddr>>

\* The jzazbz value the method reads through gc.g after init returned.
\* color and dColor hand it to Hex() and the renderer's colour profile.
UseValue(o, gr) ==
    CASE o.name = "RGBA"   -> RGBA(Color(gr, 0))
      [] o.name = "color"  -> Color(gr, 0)
      [] o.name = "dColor" -> ColorAt(gr, o.x, o.xMax)

\* The body of RGBA / color / dColor after gc.init()
Use(t) ==
    /\ ~Crashed
    /\ pc[t] = "use"
    /\ out' = [out EXCEPT ![t] = [g |-> gc.g, name |-> op[t].name,
                                  val |-> UseValue(op[t], gc.g.val)]]
    /\ pc' = [pc EXCEPT ![t] = "idle"]
    /\ op' = [op EXCEPT ![t] = NoValue]
    /\ UNCHANGED <<g, call, ret, trace, gc, tmp, calls, nBuilds, nWrites,
                   nextAddr>>

NextLazy ==
    \/ \E t \in Procs, o \in LazyOps : Call(t, o)
    \/ \E t \in Procs : InitCheck(t)
    \/ \E t \in Procs : InitBuild(t)
    \/ \E t \in Procs : InitStore(t)
    \/ \E t \in Procs : Use(t)

SpecLazy == InitLazy /\ [][NextLazy]_vars

----------------------------------------------------------------------------
(* Blend specification: blend applied to colours built by FromHex *)

\* Colours FromHex returns for the sample strings, and blend fractions
BlendColors == {FromHex(hexStr) : hexStr \in HexSamples \ {<<>>}}
FracVals == {Zero, One, R(1, 2), R(1, 3), R(0 - 1, 2), R(3, 2), NaN}

\* c.blend(c2, frac): the fresh *Color it returns, and the receiver and the
\* argument as the call leaves them (blend assigns to neither)
blendEffect(c, c2, frac) ==
    [ret |-> blend(c, c2, frac), c |-> c, c2 |-> c2]

InitBlend ==
    /\ g = BadGradient
    /\ \E c \in BlendColors, c2 \in BlendColors, frac \in FracVals :
         call = [op |-> "args", c |-> c, c2 |-> c2, frac |-> frac]
    /\ ret = NoValue
    /\ trace = NoValue
    /\ gc = [g |-> Nil, Stops |-> <<>>, Offsets |-> <<>>]
    /\ LazyIdle

\* c.blend(c2, frac)
CallBlend ==
    /\ call.op = "args"
    /\ LET e == blendEffect(call.c, call.c2, call.frac)
       IN  /\ ret' = e.ret
           /\ trace' = [c |-> e.c, c2 |-> e.c2]
    /\ call' = [call EXCEPT !.op = "blend"]
    /\ UNCHANGED <<g, gc, pc, op, tmp, out, calls, nBuilds, nWrites, nextAddr>>

NextBlend == CallBlend

SpecBlend == InitBlend /\ [][NextBlend]_vars

----------------------------------------------------------------------------
(* Properties *)

HexDigitChars == Digits \cup LowerHex \cup UpperHex

\* x[1] <= x[2] <= ... <= x[n] in float64 comparison
NonDecreasing(x) == \A i \in 1 .. Len(x) - 1 : RLe(x[i], x[i + 1])

InUnit(x) == RLe(Zero, x) /\ RLe(x, One)

\* C1: NewGradient returns the zero-stop sentinel exactly when there are no
\* stops, or offsets are given and differ in number from the stops or are not
\* non-decreasing; otherwise it returns a gradient of len(stops) >= 1 stops,
\* stop i carrying FromHex(stops[i]).
BadInput(stops, offsets) ==
    \/ Len(stops) = 0
    \/ /\ Len(offsets) > 0
       /\ (Len(offsets) # Len(stops) \/ ~NonDecreasing(offsets))

NewGradientSentinelIff ==
    call.op = "NewGradient" =>
      IF BadInput(call.stops, call.offsets)
        THEN ret = BadGradient
      ELSE /\ ~IsPanic(ret)
           /\ Len(ret.stops) = Len(call.stops)
           /\ Len(ret.stops) >= 1
           /\ \A i \in 1 .. Len(call.stops) :
                ret.stops[i].Color = FromHex(call.stops[i])

\* C2: Gradient.Color(idx) is total: the stop colour at idx when
\* 0 <= idx < number of stops, black for every other idx, never a panic.
ColorTotal ==
    call.op = "Color" =>
      ret = IF 0 <= call.idx /\ call.idx < Len(g.stops)
              THEN g.stops[call.idx + 1].Color
            ELSE black

\* C3: FromHex returns black, without panicking, for every malformed string:
\* wrong length (also "" and "#") or a non-hex character among the six digits.
Malformed(hexStr) ==
    LET h == IF Len(hexStr) > 0 /\ hexStr[1] = "#" THEN Tail1(hexStr)
             ELSE hexStr
    IN  \/ Len(h) # 6
        \/ \E i \in 1 .. Len(h) : h[i] \notin HexDigitChars

FromHexMalformedBlack ==
    (call.op = "FromHex" /\ Malformed(call.hexStr)) => ret = black

\* C4: on a gradient of at least 2 stops and for max > 0, ColorAt(0, max) is
\* exactly the first stop's colour and ColorAt(max, max) exactly the last
\* stop's colour, returned before any offset scan or blend.
ColorAtBoundaryExact ==
    (call.op = "ColorAt" /\ Len(g.stops) >= 2 /\ call.max > 0) =>
      /\ call.pos = 0 =>
           /\ ret = g.stops[1].Color
           /\ trace.branch = "pos0"
      /\ call.pos = call.max =>
           /\ ret = g.stops[Len(g.stops)].Color
           /\ trace.branch = "posmax"

ColorAtBoundaryWitness ==
    /\ call.op = "ColorAt"
    /\ Len(g.stops) = 3
    /\ call.max > 0
    /\ call.pos = call.max
    /\ g.stops[1].Color # g.stops[3].Color
    /\ g.stops[3].Offset = R(1, 2)
    /\ ret = g.stops[3].Color

\* C5: for every pos and max, ColorAt on the zero-stop sentinel is black and
\* on a single-stop gradient is that stop's colour, whatever its offset.
ColorAtDegenerate ==
    call.op = "ColorAt" =>
      /\ Len(g.stops) = 0 => ret = black
      /\ Len(g.stops) = 1 => ret = g.stops[1].Color

ColorAtDegenerateWitness ==
    /\ call.op = "ColorAt"
    /\ Len(g.stops) = 1
    /\ call.max = 0
    /\ call.pos < 0
    /\ g.stops[1].Offset = R(1, 2)
    /\ ret = g.stops[1].Color
    /\ ret # black

\* C6: for a built gradient of at least 2 stops, max > 0 and pos other than 0
\* and max, ColorAt(pos, max) equals the reference lookup on f = pos/max (s the
\* smallest stop index with offset > f; first colour if s = 0, last colour if
\* there is none, else the blend of stops s-1 and s), the divisor is not zero
\* and the blend fraction lies in [0,1]; a two-stop gradient with implicit
\* offsets gives ColorAt(5, 10) = blend(stop 0, stop 1, 1/2).
RefIndex(gr, f) ==
    LET above == {s \in 0 .. Len(gr.stops) - 1 : RLt(f, stopOffset(gr, s))}
    IN  IF above = {} THEN Len(gr.stops)
        ELSE CHOOSE s \in above : \A u \in above : s <= u

RefLookup(gr, pos, max) ==
    LET f == RDiv(FromInt(pos), FromInt(max))
        s == RefIndex(gr, f)
    IN  IF s = 0 THEN gr.stops[1].Color
        ELSE IF s = Len(gr.stops) THEN gr.stops[Len(gr.stops)].Color
        ELSE blend(gr.stops[s].Color, gr.stops[s + 1].Color,
                   RDiv(RSub(f, gr.stops[s].Offset),
                        RSub(gr.stops[s + 1].Offset, gr.stops[s].Offset)))

ColorAtMatchesReference ==
    (/\ call.op = "ColorAt"
     /\ Len(g.stops) >= 2
     /\ call.max > 0
     /\ call.pos # 0
     /\ call.pos # call.max) =>
      /\ ret = RefLookup(g, call.pos, call.max)
      /\ trace.scan.blended =>
           /\ ~REq(trace.scan.div, Zero)
           /\ InUnit(trace.scan.frac)
      /\ (/\ Len(g.stops) = 2
          /\ g.stops[1].Offset = Zero
          /\ g.stops[2].Offset = One
          /\ call.pos = 5
          /\ call.max = 10) =>
           ret = blend(g.stops[1].Color, g.stops[2].Color, R(1, 2))

\* C7: with offsets omitted the synthesized offsets are, for every n >= 1,
\* offset(0) = 0, offset(n-1) = 1 and offset(i) = i/n for 0 < i < n-1.
SynthShape(n, gr) ==
    /\ REq(gr.stops[1].Offset, Zero)
    /\ REq(gr.stops[n].Offset, One)
    /\ \A i \in 1 .. n - 2 : REq(gr.stops[i + 1].Offset, R(i, n))

Synthesized ==
    /\ call.op = "NewGradient"
    /\ Len(call.offsets) = 0
    /\ Len(call.stops) >= 1
    /\ ~IsPanic(ret)

StopInvariant ==
    /\ \A i \in 1 .. Len(g.stops) : InUnit(g.stops[i].Offset)
    /\ \A i \in 1 .. Len(g.stops) - 1 :
         RLe(g.stops[i].Offset, g.stops[i + 1].Offset)

\* C9: for an in-gamut colour (sRGB() channels within 0..255) RGBA returns
\* r, g, b within 0..65535 and a = 0xFFFF.
RGBA16Bit ==
    (/\ call.op = "RGBA"
     /\ \A k \in 1 .. 3 : sRGB(call.c)[k] \in 0 .. 255) =>
      /\ \A k \in 1 .. 3 : ret[k] \in 0 .. 65535
      /\ ret[4] = 65535

\* C10: under every interleaving of goroutines making first use of the same
\* GradientColor, NewGradient runs at most once, gc.g is written at most once
\* and every caller uses the same Gradient.
LazyInitOnce ==
    /\ nBuilds <= 1
    /\ nWrites <= 1
    /\ \A t, u \in Procs :
         ("g" \in DOMAIN out[t] /\ "g" \in DOMAIN out[u]) =>
           out[t].g = out[u].g

\* C11: a GradientColor with an invalid colour string among its Stops, or with
\* non-empty Offsets that are of the wrong length, unsorted or break
\* 0 <= Offsets[n] < Offsets[n+1] <= 1, is a black gradient: RGBA, color and
\* dColor at every position x in 0..xMax yield black.
ValidOffsets(stops, offsets) ==
    /\ Len(offsets) = Len(stops)
    /\ \A i \in 1 .. Len(offsets) : InUnit(offsets[i])
    /\ \A i \in 1 .. Len(offsets) - 1 : RLt(offsets[i], offsets[i + 1])

InvalidGradientColor ==
    \/ \E i \in 1 .. Len(gc.Stops) : Malformed(gc.Stops[i])
    \/ Len(gc.Offsets) > 0 /\ ~ValidOffsets(gc.Stops, gc.Offsets)

YieldsBlack(o) ==
    /\ "val" \in DOMAIN o
    /\ IF o.name = "RGBA" THEN o.val = <<0, 0, 0, 65535>>
       ELSE o.val = black

InvalidIsBlack ==
    InvalidGradientColor =>
      \A t \in Procs : out[t] # NoValue => YieldsBlack(out[t])

\* C12: blend endpoints are exact: blend(c1, c2, 0) equals c1 and
\* blend(c1, c2, 1) equals c2 in each of j, a and b, and blend returns a new
\* colour and leaves c1 and c2 as they were.
SameColor(x, y) == REq(x.j, y.j) /\ REq(x.a, y.a) /\ REq(x.b, y.b)

BlendEndpointsExact ==
    call.op = "blend" =>
      /\ REq(call.frac, Zero) => SameColor(ret, call.c)
      /\ REq(call.frac, One) => SameColor(ret, call.c2)
      /\ trace.c = call.c
      /\ trace.c2 = call.c2

BlendEndpointsWitness ==
    /\ call.op = "blend"
    /\ call.frac = One
    /\ ~REq(call.c.j, call.c2.j)
    /\ ~REq(call.c.a, call.c2.a)
    /\ ~REq(call.c.b, call.c2.b)
    /\ ret = call.c2
    /\ trace.c = call.c

====
